---- MODULE Spec2Model ----
(***************************************************************************)
(* Request cache and parallel dispatcher of martian_compare.py, with the   *)
(* cache-key functions of tool_intent_detection.py and                     *)
(* test_distraction_hypotheses.py.                                         *)
(*                                                                         *)
(* Python strings are sequences of one-character strings; Python's None    *)
(* is the one-element sequence <<"None">>, which no character sequence     *)
(* equals.  The cache directory is a function from file name (digest) to   *)
(* file content.                                                           *)
(***************************************************************************)
EXTENDS Integers, Sequences, FiniteSets, TLC

VARIABLES
    cache,              \* _martian_cache: digest -> file content
    force_model,        \* model of the test being run (run_model_test's model_name)
    additional_payload, \* payload of the test being run, or None
    provider,           \* provider of the test being run
    run,                \* run_model_test's loop variable for the batch followed
    dstate,             \* "idle" | "running" | "returned" | "raised"
    pc,                 \* per unit: position of send_to_martian_single
    attempt,            \* per unit: loop variable of the retry loop
    callLog,            \* per unit: outcomes of the client calls made, in order
    sleeps,             \* per unit: the wait_time values slept, in order
    ret,                \* per unit: value the future holds
    collected,          \* per unit: as_completed has yielded the future
    results,            \* send_to_martian_parallel's results list
    pbar,               \* the progress counter
    aborted,            \* future.result() has raised in the collection loop
    returned,           \* the list send_to_martian_parallel returned
    keyLog,             \* history: <<descriptor fields, digest>> of every lookup
    warm,               \* history: the dispatch follows one that returned all units
    given,              \* history, per unit: the text the client returned
    found,              \* history, per unit: what the lookup found on disk
    completion,         \* history: the units in the order as_completed yielded them
    d1, d2,             \* cache-key check: two descriptors
    h1, h2,             \* cache-key check: the strings hashed for d1 and d2
    op,                 \* cache check: the cache operations made and their results
    prev,               \* history, per unit: how it ended in the last returned dispatch
    cold,               \* history: the list returned by the dispatch that filled the cache
    csv,                \* run_model_test: the rows save_to_csv wrote for the dispatch
    request_idx,        \* make_single_request: per unit, the request_idx submitted
    phase,              \* test_distraction_hypotheses.main: the loop it is in
    clean_results,      \* main's clean_results list
    hyp_results,        \* run_hypothesis_test's results list
    analysis            \* outcome of analyze_results

vars == <<cache, force_model, additional_payload, provider, run, dstate, pc,
          attempt, callLog, sleeps, ret, collected, results, pbar, aborted,
          returned, keyLog, warm, given, found, completion, d1, d2, h1, h2, op,
          prev, cold, csv, request_idx, phase, clean_results, hyp_results, analysis>>

dispatchVars == <<cache, force_model, additional_payload, provider, run, dstate,
                  pc, attempt, callLog, sleeps, ret, collected, results, pbar,
                  aborted, returned, keyLog, warm, given, found, completion, prev, cold, csv>>

keyVars == <<d1, d2, h1, h2>>

hypVars == <<request_idx, phase, clean_results, hyp_results, analysis>>

----------------------------------------------------------------------------
(* Bounds of the model *)

NumRequests == 2
NumRuns == 2
MaxLen == 1

(* Program constants *)

max_retries == 3
max_workers == 8
BackoffBase == 2

None == <<"None">>

\* None where the code expects an int (request_idx=None, setup_index=None)
NoIdx == 0 - 1

\* the indices of the units submitted: range(num_requests)
Units == DOMAIN pc

----------------------------------------------------------------------------
(* Strings *)

Digit(n) == CASE n = 0 -> "0" [] n = 1 -> "1" [] n = 2 -> "2" [] n = 3 -> "3"
              [] n = 4 -> "4" [] n = 5 -> "5" [] n = 6 -> "6" [] n = 7 -> "7"
              [] n = 8 -> "8" [] n = 9 -> "9"

RECURSIVE StrInt(_)
StrInt(n) == IF n < 10 THEN <<Digit(n)>>
             ELSE StrInt(n \div 10) \o <<Digit(n % 10)>>

\* f"{x}" of a string or of None
Fmt(x) == IF x = None THEN <<"N", "o", "n", "e">> ELSE x

\* truth value of a string or None
Truthy(x) == x # None /\ x # <<>>

Bar == <<"|">>

SYSTEM_PROMPT_PAYLOAD == <<"\n", " ", "F", "o", "r", "m", "a", "t", ":">>
SYSTEM_PROMPT_NATURAL == <<"S", "y", "n", "t", "h", "e", "s", "i", "z", "e">>
DEFAULT_MODEL == <<"g", "p", "t", "-", "4", "o", "-", "m", "i", "n", "i">>
input_text == <<"P", ":", ":", "1", "=", "f">>

----------------------------------------------------------------------------
(* Cache keys *)

sha256(combined) == <<"sha256", combined>>

get_cache_key_untagged(text, payload, model, cache_key) ==
    sha256(Fmt(text) \o Bar \o Fmt(payload) \o Bar \o Fmt(model))

\* combined = f"{text}|{additional_payload}|{model}|{cache_key}", hashed
get_cache_key(text, payload, model, cache_key) ==
    sha256(Fmt(text) \o Bar \o Fmt(payload) \o Bar \o Fmt(model) \o Bar \o Fmt(cache_key))

system_prompt(payload) ==
    IF Truthy(payload) THEN SYSTEM_PROMPT_PAYLOAD ELSE SYSTEM_PROMPT_NATURAL

payload_str(payload) ==
    IF Truthy(payload) THEN payload ELSE <<"N", "O", "_", "P", "A", "Y", "L", "O", "A", "D">>

model_to_use(model) == IF Truthy(model) THEN model ELSE DEFAULT_MODEL

\* the digest send_to_martian_single computes
cache_hash(text, index, payload, model, cache_key, prov) ==
    get_cache_key(
        text,
        <<"s", "y", "s", "t", "e", "m", "_", "p", "r", "o", "m", "p", "t", "_">>
            \o system_prompt(payload) \o <<"_">> \o payload_str(payload)
            \o <<"_", "p", "r", "o", "v", "i", "d", "e", "r", "_">> \o prov,
        model_to_use(model),
        Fmt(cache_key) \o <<"_", "i", "d", "x">> \o StrInt(index))

\* run_model_test's cache_key=f"run_{run}"
run_tag(r) == <<"r", "u", "n", "_">> \o StrInt(r)

----------------------------------------------------------------------------
(* Cache files *)

NoDoc == [response |-> None, model |-> None, actual_model |-> None]

\* a file open('w') has truncated and json.dump has not yet filled
PartialFile == [complete |-> FALSE, doc |-> NoDoc]

json_dump_empty(response) == [complete |-> TRUE, doc |-> NoDoc]

\* json.dump(response, f) into a freshly opened file
json_dump(response) == [complete |-> TRUE, doc |-> response]

\* json.load(f): the document, or JSONDecodeError on a truncated file
json_load(file) == [raised |-> ~file.complete, some |-> file.complete, value |-> file.doc]

get_cached_response_unguarded(dir, cache_key) ==
    IF cache_key \in DOMAIN dir
    THEN json_load(dir[cache_key])
    ELSE [raised |-> TRUE, some |-> FALSE, value |-> NoDoc]

\* get_cached_response(cache_key) on the directory dir
get_cached_response_in(dir, cache_key) ==
    IF cache_key \in DOMAIN dir
    THEN json_load(dir[cache_key])
    ELSE [raised |-> FALSE, some |-> FALSE, value |-> NoDoc]

get_cached_response(cache_key) == get_cached_response_in(cache, cache_key)

\* open(cache_file, 'w') of save_to_cache
save_open(dir, cache_key) ==
    [k \in DOMAIN dir \cup {cache_key} |->
        IF k = cache_key THEN PartialFile ELSE dir[k]]

save_dump_skip(dir, cache_key, response) == dir

\* json.dump(response, f) and the close of save_to_cache
save_dump(dir, cache_key, response) ==
    [k \in DOMAIN dir \cup {cache_key} |->
        IF k = cache_key THEN json_dump(response) ELSE dir[k]]

save_to_cache_keep(dir, cache_key, response) ==
    IF cache_key \in DOMAIN dir THEN dir
    ELSE [k \in DOMAIN dir \cup {cache_key} |->
            IF k = cache_key THEN [complete |-> TRUE, doc |-> response] ELSE dir[k]]

\* save_to_cache(cache_key, response), start to end
save_to_cache(dir, cache_key, response) ==
    save_dump(save_open(dir, cache_key), cache_key, response)

----------------------------------------------------------------------------
(* send_to_martian_single *)

Responses == {<<"x">>, <<"y">>}

NoRet == [kind |-> "unset", index |-> 0, text |-> None, actual_model |-> None]

UnitKey_counted(i) ==
    cache_hash(input_text, i + Cardinality(DOMAIN cache), additional_payload,
               force_model, run_tag(run), provider)

\* the digest of unit i of the running dispatch
UnitKey(i) ==
    cache_hash(input_text, i, additional_payload, force_model, run_tag(run), provider)

UnitFields(i) ==
    <<input_text, i, additional_payload, force_model, run_tag(run), provider>>

Executing(i) == pc[i] \in {"calling", "saving"}

Terminal_done_only(i) == pc[i] = "done"

\* the future of unit i is done: the function has returned or raised
Terminal(i) == pc[i] \in {"done", "failed", "raised"}

worker_free_always == TRUE

\* ThreadPoolExecutor(max_workers=8): a worker of the pool is idle
worker_free == Cardinality({j \in Units : Executing(j)}) < max_workers

cache_hit_never(cached) == FALSE

\* "if cached:" on what get_cached_response returned
cache_hit(cached) == cached.some

cached_text_model(cached) == cached.value.model

\* return index, cached['response']
cached_text(cached) == cached.value.response

should_retry_early(e, a) == e = "503" /\ a < max_retries - 2

should_retry_any(e, a) == a < max_retries - 1

\* "503" in str(e) and attempt < max_retries - 1
should_retry(e, a) == e = "503" /\ a < max_retries - 1

\* for attempt in range(max_retries): there is a next iteration after attempt a
loop_continues(a) == a + 1 < max_retries

wait_time_from_zero(a) == a * BackoffBase

\* wait_time = (attempt + 1) * 2
wait_time(a) == (a + 1) * BackoffBase

on_failure_done(i) ==
    [pc |-> "done",
     ret |-> [kind |-> "none", index |-> i, text |-> None, actual_model |-> None]]

on_failure_raise(i) ==
    [pc |-> "raised", ret |-> [NoRet EXCEPT !.kind = "exception"]]

\* the else branch of the except clause: return index, None
on_failure(i) ==
    [pc |-> "failed",
     ret |-> [kind |-> "none", index |-> i, text |-> None, actual_model |-> None]]

\* A worker takes unit i off the queue and runs the function up to the
\* client call: cache key, cache lookup, early return on a hit.
Lookup(i) ==
    /\ dstate = "running"
    /\ pc[i] = "pending"
    /\ \A j \in Units : j < i => pc[j] # "pending"
    /\ worker_free
    /\ LET cached == get_cached_response(UnitKey(i))
       IN  /\ pc' = [pc EXCEPT ![i] =
                        IF cached.raised THEN "raised"
                        ELSE IF cache_hit(cached) THEN "done"
                        ELSE "calling"]
           /\ ret' = [ret EXCEPT ![i] =
                        IF cached.raised
                        THEN [NoRet EXCEPT !.kind = "exception"]
                        ELSE IF cache_hit(cached)
                        THEN [kind |-> "str", index |-> i,
                              text |-> cached_text(cached), actual_model |-> None]
                        ELSE NoRet]
           /\ found' = [found EXCEPT ![i] =
                        IF UnitKey(i) \notin DOMAIN cache THEN "absent"
                        ELSE IF cached.raised THEN "corrupt" ELSE "entry"]
    /\ keyLog' = keyLog \cup {<<UnitFields(i), UnitKey(i)>>}
    /\ UNCHANGED <<cache, force_model, additional_payload, provider, run, dstate,
                   attempt, callLog, sleeps, collected, results, pbar, aborted,
                   returned, warm, given, completion, keyVars, op, prev, cold, csv, hypVars>>

\* router.chat_completion returns; save_to_cache opens the cache file
ClientReturns(i, r) ==
    /\ dstate = "running"
    /\ pc[i] = "calling"
    /\ callLog' = [callLog EXCEPT ![i] = Append(@, "ok")]
    /\ given' = [given EXCEPT ![i] = r]
    /\ cache' = save_open(cache, UnitKey(i))
    /\ ret' = [ret EXCEPT ![i] =
                 [kind |-> "tuple", index |-> i, text |-> r,
                  actual_model |-> model_to_use(force_model)]]
    /\ pc' = [pc EXCEPT ![i] = "saving"]
    /\ UNCHANGED <<force_model, additional_payload, provider, run, dstate,
                   attempt, sleeps, collected, results, pbar, aborted, returned,
                   keyLog, warm, found, completion, keyVars, op, prev, cold, csv, hypVars>>

\* json.dump fills the cache file; the function returns index, (result, actual_model)
SaveDump(i) ==
    /\ dstate = "running"
    /\ pc[i] = "saving"
    /\ cache' = save_dump(cache, UnitKey(i),
                          [response |-> ret[i].text,
                           model |-> model_to_use(force_model),
                           actual_model |-> ret[i].actual_model])
    /\ pc' = [pc EXCEPT ![i] = "done"]
    /\ UNCHANGED <<force_model, additional_payload, provider, run, dstate,
                   attempt, callLog, sleeps, ret, collected, results, pbar,
                   aborted, returned, keyLog, warm, given, found, completion,
                   keyVars, op, prev, cold, csv, hypVars>>

\* router.chat_completion raises e: "503" (service unavailable) or "error".
\* On a retry the worker sleeps wait_time and starts the next iteration; a
\* loop that runs out of iterations falls off the end of the function.
ClientRaises(i, e) ==
    /\ dstate = "running"
    /\ pc[i] = "calling"
    /\ callLog' = [callLog EXCEPT ![i] = Append(@, e)]
    /\ IF should_retry(e, attempt[i])
       THEN /\ sleeps' = [sleeps EXCEPT ![i] = Append(@, wait_time(attempt[i]))]
            /\ IF loop_continues(attempt[i])
               THEN /\ attempt' = [attempt EXCEPT ![i] = @ + 1]
                    /\ UNCHANGED <<pc, ret>>
               ELSE /\ pc' = [pc EXCEPT ![i] = "failed"]
                    /\ ret' = [ret EXCEPT ![i] = [NoRet EXCEPT !.kind = "bare"]]
                    /\ UNCHANGED attempt
       ELSE /\ pc' = [pc EXCEPT ![i] = on_failure(i).pc]
            /\ ret' = [ret EXCEPT ![i] = on_failure(i).ret]
            /\ UNCHANGED <<sleeps, attempt>>
    /\ UNCHANGED <<cache, force_model, additional_payload, provider, run, dstate,
                   collected, results, pbar, aborted, returned, keyLog, warm,
                   given, found, completion, keyVars, op, prev, cold, csv, hypVars>>

----------------------------------------------------------------------------
(* send_to_martian_parallel *)

FilterNone_keep(res, i) == [n \in 1 .. NumRequests - i |-> res[i + n - 1]]

RECURSIVE FilterNone(_, _)
\* [r for r in results if r is not None], from position i on
FilterNone(res, i) ==
    IF i >= NumRequests THEN <<>>
    ELSE (IF res[i] # None THEN <<res[i]>> ELSE <<>>) \o FilterNone(res, i + 1)

result_slot_by_completion(index, n) == n

result_slot_first(index, n) == 0

pbar_update_filled(n, result) == IF result.text = None THEN n ELSE n + 1

\* pbar.update(1), after the result of a future has been handled
pbar_update(n, result) == n + 1

\* results[index] = ...: the slot written for a result (index, data), when
\* n results have been taken before it
result_slot(index, n) == index

\* run_model_test calls send_to_martian_parallel: results = [None] * num_requests
\* and every unit is submitted to the pool
StartDispatch ==
    /\ dstate \in {"idle", "returned", "raised"}
    /\ dstate' = "running"
    /\ pc' = [i \in Units |-> "pending"]
    /\ attempt' = [i \in Units |-> 0]
    /\ callLog' = [i \in Units |-> <<>>]
    /\ sleeps' = [i \in Units |-> <<>>]
    /\ ret' = [i \in Units |-> NoRet]
    /\ collected' = [i \in Units |-> FALSE]
    /\ results' = [i \in Units |-> None]
    /\ pbar' = 0
    /\ aborted' = FALSE
    /\ returned' = <<>>
    /\ given' = [i \in Units |-> None]
    /\ found' = [i \in Units |-> "unset"]
    /\ completion' = <<>>
    /\ warm' = (warm \/ (dstate = "returned" /\ Len(returned) = NumRequests))
    /\ prev' = IF dstate = "returned"
               THEN [i \in Units |-> IF pc[i] = "done" THEN "done" ELSE "failed"]
               ELSE prev
    /\ cold' = IF /\ dstate = "returned"
                  /\ \A i \in Units : found[i] = "absent" /\ pc[i] = "done"
               THEN returned
               ELSE cold
    /\ csv' = <<>>
    /\ UNCHANGED <<cache, force_model, additional_payload, provider, run, keyLog,
                   keyVars, op, hypVars>>

\* one iteration of "for future in as_completed(futures)"
Collect(i) ==
    /\ dstate = "running"
    /\ ~aborted
    /\ Terminal(i)
    /\ ~collected[i]
    /\ collected' = [collected EXCEPT ![i] = TRUE]
    /\ completion' = Append(completion, i)
    /\ IF pc[i] = "raised"
       THEN /\ aborted' = TRUE
            /\ UNCHANGED <<results, pbar>>
       ELSE /\ results' =
                 IF ret[i].kind = "bare" THEN results
                 ELSE [results EXCEPT ![result_slot(ret[i].index, pbar)] = ret[i].text]
            /\ pbar' = pbar_update(pbar, ret[i])
            /\ UNCHANGED aborted
    /\ UNCHANGED <<cache, force_model, additional_payload, provider, run, dstate,
                   pc, attempt, callLog, sleeps, ret, returned, keyLog, warm,
                   given, found, keyVars, op, prev, cold, csv, hypVars>>

\* the executor is shut down (every unit has ended) and the function returns
\* the filtered list, or the exception of future.result() reaches the caller
Return ==
    /\ dstate = "running"
    /\ \A i \in Units : Terminal(i)
    /\ aborted \/ \A i \in Units : collected[i]
    /\ dstate' = IF aborted THEN "raised" ELSE "returned"
    /\ returned' = IF aborted THEN <<>> ELSE FilterNone(results, 0)
    /\ UNCHANGED <<cache, force_model, additional_payload, provider, run, pc,
                   attempt, callLog, sleeps, ret, collected, results, pbar,
                   aborted, keyLog, warm, given, found, completion, keyVars, op,
                   prev, cold, csv, hypVars>>

\* The process is killed while a dispatch runs (Ctrl-C, a crash): the cache
\* directory stays as it is, with the files open('w') has truncated.
Interrupt ==
    /\ dstate = "running"
    /\ dstate' = "idle"
    /\ pc' = [i \in Units |-> "pending"]
    /\ attempt' = [i \in Units |-> 0]
    /\ callLog' = [i \in Units |-> <<>>]
    /\ sleeps' = [i \in Units |-> <<>>]
    /\ ret' = [i \in Units |-> NoRet]
    /\ collected' = [i \in Units |-> FALSE]
    /\ results' = [i \in Units |-> None]
    /\ pbar' = 0
    /\ aborted' = FALSE
    /\ returned' = <<>>
    /\ given' = [i \in Units |-> None]
    /\ found' = [i \in Units |-> "unset"]
    /\ completion' = <<>>
    /\ UNCHANGED <<cache, force_model, additional_payload, provider, run, keyLog,
                   warm, keyVars, op, prev, cold, csv, hypVars>>

----------------------------------------------------------------------------
(* Specification of the dispatcher.  One batch of run_model_test is       *)
(* followed (one test, one value of run) through repeated executions of   *)
(* the program; the dispatches of the other runs write other cache files. *)

Q == <<"q">>
MARTIAN == <<"m", "a", "r", "t", "i", "a", "n">>

NoDescriptor == [text |-> None, payload |-> None, model |-> None,
                 run |-> 0, index |-> 0, provider |-> None]

\* the program before any dispatch, for batches of n requests
InitIdleFor(n) ==
    /\ cache = <<>>
    /\ dstate = "idle"
    /\ pc = [i \in 0 .. n - 1 |-> "pending"]
    /\ attempt = [i \in Units |-> 0]
    /\ callLog = [i \in Units |-> <<>>]
    /\ sleeps = [i \in Units |-> <<>>]
    /\ ret = [i \in Units |-> NoRet]
    /\ collected = [i \in Units |-> FALSE]
    /\ results = [i \in Units |-> None]
    /\ pbar = 0
    /\ aborted = FALSE
    /\ returned = <<>>
    /\ keyLog = {}
    /\ warm = FALSE
    /\ given = [i \in Units |-> None]
    /\ found = [i \in Units |-> "unset"]
    /\ completion = <<>>
    /\ prev = [i \in Units |-> "unset"]
    /\ cold = <<>>
    /\ csv = <<>>

InitIdle == InitIdleFor(NumRequests)

\* analyze_results has not been called
NoAnalysis == [raised |-> FALSE, drops |-> NoIdx]

\* test_distraction_hypotheses.main has not been started
HypIdle ==
    /\ request_idx = [i \in Units |-> i]
    /\ phase = "idle"
    /\ clean_results = <<>>
    /\ hyp_results = <<>>
    /\ analysis = NoAnalysis

Init ==
    /\ InitIdle
    /\ HypIdle
    /\ force_model = DEFAULT_MODEL
    /\ additional_payload \in {None, Q}
    /\ provider = MARTIAN
    /\ run \in 0 .. NumRuns - 1
    /\ d1 = NoDescriptor
    /\ d2 = NoDescriptor
    /\ h1 = None
    /\ h2 = None
    /\ op = <<>>

Next ==
    \/ StartDispatch
    \/ \E i \in Units : Lookup(i)
    \/ \E i \in Units, r \in Responses : ClientReturns(i, r)
    \/ \E i \in Units : SaveDump(i)
    \/ \E i \in Units, e \in {"503", "error"} : ClientRaises(i, e)
    \/ \E i \in Units : Collect(i)
    \/ Return

Spec == Init /\ [][Next]_vars

\* the dispatcher with executions of the program that are killed
SpecCorrupt == Init /\ [][Next \/ Interrupt]_vars

\* The dispatcher under the scheduling the code relies on: a worker of the
\* pool takes every queued unit, every client call returns or raises, a
\* started cache write is finished, as_completed yields every finished future
\* and the function returns when its loop is over.
Fairness ==
    /\ \A i \in 0 .. NumRequests - 1 : WF_vars(Lookup(i))
    /\ \A i \in 0 .. NumRequests - 1 : WF_vars((\E r \in Responses : ClientReturns(i, r))
                                  \/ (\E e \in {"503", "error"} : ClientRaises(i, e)))
    /\ \A i \in 0 .. NumRequests - 1 : WF_vars(SaveDump(i))
    /\ \A i \in 0 .. NumRequests - 1 : WF_vars(Collect(i))
    /\ WF_vars(Return)

SpecFair == Init /\ [][Next]_vars /\ Fairness

\* The pool of one dispatch of more requests than it has workers, while its
\* units run: the workers take the units in submission order, every client
\* call ends with an error, and the service answers 503 at most
\* MaxUnavailable times in the dispatch.
PoolRequests == 9

MaxUnavailable == 1

\* the client calls of the dispatch that were answered 503 so far
Unavailable ==
    {c \in UNION {{<<j, n>> : n \in DOMAIN callLog[j]} : j \in Units} :
        callLog[c[1]][c[2]] = "503"}

InitPool ==
    /\ InitIdleFor(PoolRequests)
    /\ HypIdle
    /\ force_model = DEFAULT_MODEL
    /\ additional_payload = None
    /\ provider = MARTIAN
    /\ run = 0
    /\ d1 = NoDescriptor
    /\ d2 = NoDescriptor
    /\ h1 = None
    /\ h2 = None
    /\ op = <<>>

NextPool ==
    \/ StartDispatch
    \/ \E i \in Units : Lookup(i)
    \/ \E i \in Units : ClientRaises(i, "error")
    \/ \E i \in Units : Cardinality(Unavailable) < MaxUnavailable /\ ClientRaises(i, "503")

SpecPool == InitPool /\ [][NextPool]_vars

\* The dispatcher on a disk that can fill up: json.dump of save_to_cache
\* raises OSError ("[Errno 28] No space left on device") inside the try block
\* of the retry loop.  The message has no "503" in it, so the except clause
\* takes its else branch; the file open('w') has truncated stays.
SaveRaises(i) ==
    /\ dstate = "running"
    /\ pc[i] = "saving"
    /\ ~should_retry("errno28", attempt[i])
    /\ pc' = [pc EXCEPT ![i] = on_failure(i).pc]
    /\ ret' = [ret EXCEPT ![i] = on_failure(i).ret]
    /\ UNCHANGED <<cache, force_model, additional_payload, provider, run, dstate,
                   attempt, sleeps, callLog, collected, results, pbar, aborted, returned, keyLog,
                   warm, given, found, completion, keyVars, op, prev, cold, csv, hypVars>>

NextSaveFail ==
    \/ Next
    \/ \E i \in Units : SaveRaises(i)

SpecSaveFail == Init /\ [][NextSaveFail]_vars

\* run_model_test after send_to_martian_parallel has returned martian_results:
\* nothing is written for an empty list, otherwise
\* for i, (response, sim) in enumerate(zip(martian_results, similarities)):
\*     save_to_csv(model_name, i, response, ...)
SaveToCsv ==
    /\ dstate = "returned"
    /\ returned # <<>>
    /\ csv = <<>>
    /\ csv' = [n \in DOMAIN returned |->
                  [model |-> force_model, request_index |-> n - 1,
                   response |-> returned[n]]]
    /\ UNCHANGED <<cache, force_model, additional_payload, provider, run, dstate,
                   pc, attempt, callLog, sleeps, ret, collected, results, pbar,
                   aborted, returned, keyLog, warm, given, found, completion,
                   keyVars, op, prev, cold, hypVars>>

NextCsv ==
    \/ Next
    \/ SaveToCsv

SpecCsv == Init /\ [][NextCsv]_vars

----------------------------------------------------------------------------
(* Specification of the cache keys: the digest send_to_martian_single      *)
(* computes, applied to two descriptors that are one field apart, or that  *)
(* are two units (run, index) of the same test.                            *)

Alphabet == {"a", "|"}

RECURSIVE Strs(_)
\* the strings over Alphabet of length at most n
Strs(n) ==
    IF n = 0 THEN {<<>>}
    ELSE Strs(n - 1) \cup
         {Append(w, c) : w \in {v \in Strs(n - 1) : Len(v) = n - 1}, c \in Alphabet}

OPENROUTER == <<"o", "p", "e", "n", "r", "o", "u", "t", "e", "r">>

\* what run_model_test passes: a payload is None or a non-empty question, a
\* model is a non-empty name
KeyTexts == Strs(MaxLen)
KeyPayloads == {None} \cup (Strs(MaxLen) \ {<<>>})
KeyModels == {DEFAULT_MODEL} \cup (Strs(MaxLen) \ {<<>>})
KeyRuns == 0 .. NumRuns - 1
KeyIndices == Units \cup {10}

Descriptors ==
    [text : KeyTexts, payload : KeyPayloads, model : KeyModels,
     run : KeyRuns, index : KeyIndices, provider : {MARTIAN}]

FieldsApart(a, b) ==
    {f \in {"text", "payload", "model", "run", "index", "provider"} : a[f] # b[f]}

Variants(d) ==
    {[d EXCEPT !.text = t] : t \in KeyTexts \ {d.text}}
    \cup {[d EXCEPT !.payload = q] : q \in KeyPayloads \ {d.payload}}
    \cup {[d EXCEPT !.model = m] : m \in KeyModels \ {d.model}}
    \cup {[d EXCEPT !.provider = OPENROUTER]}
    \cup {[d EXCEPT !.run = u[1], !.index = u[2]] :
            u \in (KeyRuns \X KeyIndices) \ {<<d.run, d.index>>}}

DescriptorKey(d) ==
    cache_hash(d.text, d.index, d.payload, d.model, run_tag(d.run), d.provider)

InitKey ==
    /\ InitIdle
    /\ HypIdle
    /\ force_model = DEFAULT_MODEL
    /\ additional_payload = None
    /\ provider = MARTIAN
    /\ run = 0
    /\ op = <<>>
    /\ d1 \in Descriptors
    /\ d2 \in Variants(d1)
    /\ h1 = None
    /\ h2 = None

ComputeKeys ==
    /\ h1 = None
    /\ h1' = DescriptorKey(d1)
    /\ h2' = DescriptorKey(d2)
    /\ UNCHANGED <<dispatchVars, d1, d2, op, hypVars>>

SpecKey == InitKey /\ [][ComputeKeys]_vars

----------------------------------------------------------------------------
(* Specification of the cache: save_to_cache and get_cached_response       *)
(* called one after the other on the cache files of the batch.             *)

MaxOps == 3

CacheKeys == {UnitKey(i) : i \in Units}

CacheDocs ==
    {[response |-> r, model |-> model_to_use(force_model),
      actual_model |-> model_to_use(force_model)] : r \in Responses}

CacheSave(k, v) ==
    /\ Len(op) < MaxOps
    /\ cache' = save_to_cache(cache, k, v)
    /\ op' = Append(op, [name |-> "save", key |-> k, value |-> v,
                         some |-> TRUE, raised |-> FALSE])
    /\ UNCHANGED <<force_model, additional_payload, provider, run, dstate, pc,
                   attempt, callLog, sleeps, ret, collected, results, pbar,
                   aborted, returned, keyLog, warm, given, found, completion,
                   keyVars, prev, cold, csv, hypVars>>

CacheGet(k) ==
    /\ Len(op) < MaxOps
    /\ LET cached == get_cached_response(k)
       IN  op' = Append(op, [name |-> "get", key |-> k, value |-> cached.value,
                             some |-> cached.some, raised |-> cached.raised])
    /\ UNCHANGED <<dispatchVars, keyVars, hypVars>>

NextCache ==
    \/ \E k \in CacheKeys : CacheGet(k)
    \/ \E k \in CacheKeys, v \in CacheDocs : CacheSave(k, v)

SpecCache == Init /\ [][NextCache]_vars

----------------------------------------------------------------------------
(* clear_cache of martian_compare.py, with the cache operations above *)

HexDigit(n) == CASE n < 10 -> Digit(n) [] n = 10 -> "a" [] n = 11 -> "b"
                 [] n = 12 -> "c" [] n = 13 -> "d" [] n = 14 -> "e" [] n = 15 -> "f"

\* hexdigest(): the digest written with the digits 0-9a-f; two of its 64
\* characters are kept
hexdigest(h) ==
    <<HexDigit((Len(h[2]) \div 16) % 16), HexDigit(Len(h[2]) % 16)>>

\* the name of the cache file of a digest in os.listdir(CACHE_DIR)
cache_file(cache_key) == hexdigest(cache_key) \o <<".", "j", "s", "o", "n">>

\* sub in s
Contains(s, sub) ==
    \E n \in 0 .. Len(s) - Len(sub) : SubSeq(s, n + 1, n + Len(sub)) = sub

\* the setup of TEST_SETUPS the batch followed belongs to, and their number
TEST_SETUP_INDEX == 0
NumSetups == 4

\* clear_cache(setup_index=None) on the directory dir
clear_cache(dir, setup_index) ==
    IF setup_index # NoIdx
    THEN LET kept == {k \in DOMAIN dir :
                         ~Contains(cache_file(k),
                                   <<"s", "e", "t", "u", "p">> \o StrInt(setup_index))}
         IN  [k \in kept |-> dir[k]]
    ELSE <<>>

ClearCache(setup_index) ==
    /\ Len(op) < MaxOps
    /\ cache' = clear_cache(cache, setup_index)
    /\ op' = Append(op, [name |-> "clear",
                         key |-> IF setup_index = NoIdx THEN None ELSE StrInt(setup_index),
                         value |-> NoDoc, some |-> FALSE, raised |-> FALSE])
    /\ UNCHANGED <<force_model, additional_payload, provider, run, dstate, pc,
                   attempt, callLog, sleeps, ret, collected, results, pbar,
                   aborted, returned, keyLog, warm, given, found, completion,
                   keyVars, prev, cold, csv, hypVars>>

NextClear ==
    \/ NextCache
    \/ \E s \in (0 .. NumSetups - 1) \cup {NoIdx} : ClearCache(s)

SpecClear == Init /\ [][NextClear]_vars

----------------------------------------------------------------------------
(* test_distraction_hypotheses.py: make_single_request, the clean-baseline *)
(* loop of main, run_hypothesis_test and analyze_results.  The units use   *)
(* the per-unit variables of the dispatcher above; make_single_request and *)
(* the collection loop of tool_intent_detection.run_parallel_test are the  *)
(* same code as make_single_request and run_hypothesis_test here.          *)

\* get_cache_key(prompt, model, request_idx=None) of both files
get_cache_key_idx(prompt, model, idx) ==
    IF idx # NoIdx
    THEN sha256(Fmt(prompt) \o Bar \o Fmt(model) \o Bar \o StrInt(idx))
    ELSE sha256(Fmt(prompt) \o Bar \o Fmt(model))

ROUTER == <<"r", "o", "u", "t", "e", "r">>
CLEAN_QUERY == <<"I", " ", "n", "e", "e", "d">>
TECHNICAL_OVERLOAD == <<"T", "C", "P">>

\* TOOL_DETECTION_PROMPT.format(query=query)
TOOL_DETECTION_PROMPT(query) == <<"R", "e", "q", "u", "e", "s", "t", ":", " ">> \o query

\* f"{distraction_text}\n\n{CLEAN_QUERY}\n\n{distraction_text}"
noisy_query(distraction_text) ==
    distraction_text \o <<"\n", "\n">> \o CLEAN_QUERY \o <<"\n", "\n">> \o distraction_text

\* the prompt of the units of the loop main is in
prompt_of(ph) ==
    IF ph = "baseline" THEN TOOL_DETECTION_PROMPT(CLEAN_QUERY)
    ELSE TOOL_DETECTION_PROMPT(noisy_query(TECHNICAL_OVERLOAD))

\* cache_key = get_cache_key(prompt, model, request_idx) of unit i
RequestKey(i) == get_cache_key_idx(prompt_of(phase), ROUTER, request_idx[i])

\* response texts: one "F" for each "Function Name:" block
ToolResponses == {<<"F", "F", "F">>, <<"F", "F", "F", "F">>}

\* extract_tool_mentions(text)['tool_count']
tool_count(text) == Cardinality({n \in DOMAIN text : text[n] = "F"})

\* make_single_request up to the client call: cache key, lookup, early return
MakeRequestLookup(i) ==
    /\ phase \in {"baseline", "hypothesis"}
    /\ pc[i] = "pending"
    /\ \A j \in Units : j < i => pc[j] # "pending"
    /\ worker_free
    /\ LET cached == get_cached_response(RequestKey(i))
       IN  /\ pc' = [pc EXCEPT ![i] =
                        IF cached.raised THEN "raised"
                        ELSE IF cache_hit(cached) THEN "done"
                        ELSE "calling"]
           /\ ret' = [ret EXCEPT ![i] =
                        IF cached.raised
                        THEN [NoRet EXCEPT !.kind = "exception"]
                        ELSE IF cache_hit(cached)
                        THEN [kind |-> "dict", index |-> request_idx[i],
                              text |-> cached.value, actual_model |-> None]
                        ELSE NoRet]
           /\ found' = [found EXCEPT ![i] =
                        IF RequestKey(i) \notin DOMAIN cache THEN "absent"
                        ELSE IF cached.raised THEN "corrupt" ELSE "entry"]
    /\ UNCHANGED <<cache, force_model, additional_payload, provider, run, dstate,
                   attempt, callLog, sleeps, collected, results, pbar, aborted,
                   returned, keyLog, warm, given, completion, keyVars, op, prev, cold, csv,
                   hypVars>>

\* router.chat_completion returns; save_to_cache opens the cache file
MakeRequestReturns(i, r) ==
    /\ phase \in {"baseline", "hypothesis"}
    /\ pc[i] = "calling"
    /\ callLog' = [callLog EXCEPT ![i] = Append(@, "ok")]
    /\ given' = [given EXCEPT ![i] = r]
    /\ cache' = save_open(cache, RequestKey(i))
    /\ ret' = [ret EXCEPT ![i] =
                 [kind |-> "dict", index |-> request_idx[i], text |-> r,
                  actual_model |-> None]]
    /\ pc' = [pc EXCEPT ![i] = "saving"]
    /\ UNCHANGED <<force_model, additional_payload, provider, run, dstate,
                   attempt, sleeps, collected, results, pbar, aborted, returned,
                   keyLog, warm, found, completion, keyVars, op, prev, cold, csv, hypVars>>

\* json.dump fills the cache file; make_single_request returns its dict
MakeRequestSaved(i) ==
    /\ phase \in {"baseline", "hypothesis"}
    /\ pc[i] = "saving"
    /\ cache' = save_dump(cache, RequestKey(i), ret[i].text)
    /\ pc' = [pc EXCEPT ![i] = "done"]
    /\ UNCHANGED <<force_model, additional_payload, provider, run, dstate,
                   attempt, callLog, sleeps, ret, collected, results, pbar,
                   aborted, returned, keyLog, warm, given, found, completion,
                   keyVars, op, prev, cold, csv, hypVars>>

\* router.chat_completion raises e; nothing in make_single_request catches it
MakeRequestRaises(i, e) ==
    /\ phase \in {"baseline", "hypothesis"}
    /\ pc[i] = "calling"
    /\ callLog' = [callLog EXCEPT ![i] = Append(@, e)]
    /\ pc' = [pc EXCEPT ![i] = "raised"]
    /\ ret' = [ret EXCEPT ![i] = [NoRet EXCEPT !.kind = "exception"]]
    /\ UNCHANGED <<cache, force_model, additional_payload, provider, run, dstate,
                   attempt, sleeps, collected, results, pbar, aborted, returned,
                   keyLog, warm, given, found, completion, keyVars, op, prev, cold, csv,
                   hypVars>>

\* results.sort(key=lambda x: x['request_idx']): x put into the sorted list s
InsertByIdx(s, x) ==
    LET k == Cardinality({n \in DOMAIN s : s[n].request_idx <= x.request_idx})
    IN  SubSeq(s, 1, k) \o <<x>> \o SubSeq(s, k + 1, Len(s))

RECURSIVE sort_by_request_idx(_)
sort_by_request_idx(s) ==
    IF s = <<>> THEN <<>>
    ELSE InsertByIdx(sort_by_request_idx(SubSeq(s, 1, Len(s) - 1)), s[Len(s)])

\* the collection loop of run_hypothesis_test has try/except around
\* future.result(); the clean-baseline loop of main has none
loop_catches(ph) == ph = "hypothesis"

\* analyze_results(all_results, clean_baseline), for one hypothesis:
\* drops = sum(1 for i in range(N) if clean_tool_counts[i] == 4 and tool_counts[i] == 3)
analyze_results(results_list, clean_baseline) ==
    LET raises(i) == IF i >= Len(clean_baseline) THEN TRUE
                     ELSE clean_baseline[i + 1].tool_count = 4 /\ i >= Len(results_list)
    IN  IF \E i \in Units : raises(i)
        THEN [raised |-> TRUE, drops |-> 0]
        ELSE [raised |-> FALSE,
              drops |-> Cardinality({i \in Units :
                           /\ clean_baseline[i + 1].tool_count = 4
                           /\ results_list[i + 1].tool_count = 3})]

\* every request of a loop is submitted to a new pool
SubmitRequests ==
    /\ pc' = [i \in Units |-> "pending"]
    /\ callLog' = [i \in Units |-> <<>>]
    /\ ret' = [i \in Units |-> NoRet]
    /\ collected' = [i \in Units |-> FALSE]
    /\ aborted' = FALSE
    /\ given' = [i \in Units |-> None]
    /\ found' = [i \in Units |-> "unset"]
    /\ completion' = <<>>

\* main is started and submits the clean-baseline requests
StartMain ==
    /\ phase \in {"idle", "finished", "raised"}
    /\ phase' = "baseline"
    /\ SubmitRequests
    /\ clean_results' = <<>>
    /\ hyp_results' = <<>>
    /\ analysis' = NoAnalysis
    /\ UNCHANGED <<cache, force_model, additional_payload, provider, run, dstate,
                   attempt, sleeps, results, pbar, returned, keyLog, warm,
                   keyVars, op, prev, cold, csv, request_idx>>

\* one iteration of "for future in as_completed(futures)" of either loop
CollectRequest(i) ==
    /\ phase \in {"baseline", "hypothesis"}
    /\ ~aborted
    /\ Terminal(i)
    /\ ~collected[i]
    /\ collected' = [collected EXCEPT ![i] = TRUE]
    /\ completion' = Append(completion, i)
    /\ IF pc[i] = "raised"
       THEN /\ aborted' = ~loop_catches(phase)
            /\ UNCHANGED <<clean_results, hyp_results>>
       ELSE /\ UNCHANGED aborted
            /\ LET entry == [request_idx |-> ret[i].index,
                             tool_count |-> tool_count(ret[i].text)]
               IN  IF phase = "baseline"
                   THEN /\ clean_results' = Append(clean_results, entry)
                        /\ UNCHANGED hyp_results
                   ELSE /\ hyp_results' = Append(hyp_results, entry)
                        /\ UNCHANGED clean_results
    /\ UNCHANGED <<cache, force_model, additional_payload, provider, run, dstate,
                   pc, attempt, callLog, sleeps, ret, results, pbar, returned,
                   keyLog, warm, given, found, keyVars, op, prev, cold, csv, request_idx,
                   phase, analysis>>

\* the clean-baseline pool is shut down: the exception of future.result()
\* leaves main, or clean_results is sorted and run_hypothesis_test submits
\* the requests of the hypothesis
BaselineEnds ==
    /\ phase = "baseline"
    /\ \A i \in Units : Terminal(i)
    /\ aborted \/ \A i \in Units : collected[i]
    /\ IF aborted
       THEN /\ phase' = "raised"
            /\ UNCHANGED <<pc, callLog, ret, collected, aborted, given, found,
                           completion, clean_results>>
       ELSE /\ phase' = "hypothesis"
            /\ clean_results' = sort_by_request_idx(clean_results)
            /\ SubmitRequests
    /\ UNCHANGED <<cache, force_model, additional_payload, provider, run, dstate,
                   attempt, sleeps, results, pbar, returned, keyLog, warm,
                   keyVars, op, prev, cold, csv, request_idx, hyp_results, analysis>>

\* run_hypothesis_test returns; main sorts the results and calls analyze_results
HypothesisEnds ==
    /\ phase = "hypothesis"
    /\ \A i \in Units : Terminal(i) /\ collected[i]
    /\ hyp_results' = sort_by_request_idx(hyp_results)
    /\ analysis' = analyze_results(hyp_results', clean_results)
    /\ phase' = IF analysis'.raised THEN "raised" ELSE "finished"
    /\ UNCHANGED <<cache, force_model, additional_payload, provider, run, dstate,
                   pc, attempt, callLog, sleeps, ret, collected, results, pbar,
                   aborted, returned, keyLog, warm, given, found, completion,
                   keyVars, op, prev, cold, csv, request_idx, clean_results>>

InitHypothesis ==
    /\ InitIdle
    /\ HypIdle
    /\ force_model = ROUTER
    /\ additional_payload = None
    /\ provider = MARTIAN
    /\ run = 0
    /\ d1 = NoDescriptor
    /\ d2 = NoDescriptor
    /\ h1 = None
    /\ h2 = None
    /\ op = <<>>

NextHypothesis ==
    \/ StartMain
    \/ \E i \in Units : MakeRequestLookup(i)
    \/ \E i \in Units, r \in ToolResponses : MakeRequestReturns(i, r)
    \/ \E i \in Units : MakeRequestSaved(i)
    \/ \E i \in Units, e \in {"503", "error"} : MakeRequestRaises(i, e)
    \/ \E i \in Units : CollectRequest(i)
    \/ BaselineEnds
    \/ HypothesisEnds

SpecHypothesis == InitHypothesis /\ [][NextHypothesis]_vars

\* a pool that is given the same request (prompt, model, request_idx) for
\* more than one of its units
InitDuplicate ==
    /\ InitIdle
    /\ request_idx \in {f \in [Units -> Units] : \E i, j \in Units : i # j /\ f[i] = f[j]}
    /\ phase = "idle"
    /\ clean_results = <<>>
    /\ hyp_results = <<>>
    /\ analysis = NoAnalysis
    /\ force_model = ROUTER
    /\ additional_payload = None
    /\ provider = MARTIAN
    /\ run = 0
    /\ d1 = NoDescriptor
    /\ d2 = NoDescriptor
    /\ h1 = None
    /\ h2 = None
    /\ op = <<>>

SpecDuplicate == InitDuplicate /\ [][NextHypothesis]_vars

----------------------------------------------------------------------------
(* Specification of get_cache_key of tool_intent_detection and             *)
(* test_distraction_hypotheses: the function is applied to two different   *)
(* descriptors (prompt, model, request_idx).                               *)

\* model names: short strings, and short strings followed by "|" and a number
IdxModels ==
    Strs(MaxLen) \cup {w \o Bar \o StrInt(i) : w \in Strs(MaxLen), i \in Units}

IdxDescriptors ==
    [prompt : Strs(MaxLen), model : IdxModels, request_idx : {NoIdx} \cup Units]

InitKeyIdx ==
    /\ InitIdle
    /\ HypIdle
    /\ force_model = DEFAULT_MODEL
    /\ additional_payload = None
    /\ provider = MARTIAN
    /\ run = 0
    /\ op = <<>>
    /\ d1 \in IdxDescriptors
    /\ d2 \in IdxDescriptors \ {d1}
    /\ h1 = None
    /\ h2 = None

ComputeKeysIdx ==
    /\ h1 = None
    /\ h1' = get_cache_key_idx(d1.prompt, d1.model, d1.request_idx)
    /\ h2' = get_cache_key_idx(d2.prompt, d2.model, d2.request_idx)
    /\ UNCHANGED <<dispatchVars, d1, d2, op, hypVars>>

SpecKeyIdx == InitKeyIdx /\ [][ComputeKeysIdx]_vars


----------------------------------------------------------------------------
(* Properties of the dispatcher *)

\* the unit returned a response (from the cache or from the client)
Delivered(i) == ret[i].kind \in {"str", "tuple"}

AbsentBelow(i) == Cardinality({j \in Units : j < i /\ ~Delivered(j)})

AllTransient(i) ==
    /\ Len(callLog[i]) > 0
    /\ \A n \in DOMAIN callLog[i] : callLog[i][n] = "503"

\* the text the unit has to deliver: what the client returned to it, or,
\* for a unit served from the cache, what the cache file holds
Expected(j) ==
    IF callLog[j] = <<"ok">> THEN given[j]
    ELSE cache[UnitKey(j)].doc.response

\* C1 as stated: in the returned sequence the result of the unit submitted
\* with index i is at position i (the first position is 0), for every i.
C1_IndexInIndexOut ==
    dstate = "returned" =>
        \A i \in Units : Delivered(i) =>
            /\ Len(returned) >= i + 1
            /\ returned[i + 1] = ret[i].text

\* C1 amended: whatever the completion order, the result of unit i is in slot
\* i of the results list, and in the returned (filtered) sequence at position
\* i minus the number of absent units with a smaller index; so the returned
\* sequence keeps submission order, and index i is position i only when no
\* unit before i is absent.
C1_OrderPreserved ==
    dstate = "returned" =>
        \A i \in Units : Delivered(i) =>
            /\ results[i] = ret[i].text
            /\ Len(returned) >= i - AbsentBelow(i) + 1
            /\ returned[i - AbsentBelow(i) + 1] = ret[i].text

C1_Witness ==
    /\ dstate = "returned"
    /\ completion = <<1, 0>>
    /\ ~Delivered(0)
    /\ Delivered(1)
    /\ returned = <<ret[1].text>>

C2_Premise(k) ==
    /\ \A i \in Units : Terminal(i)
    /\ callLog[k] = <<"error">>
    /\ \A j \in Units \ {k} :
          \/ callLog[j] = <<"ok">>
          \/ callLog[j] = <<>> /\ found[j] = "entry"

\* C2: partial failure isolation.  When one unit k fails permanently on its
\* client call and every client call of the other units succeeds, the dispatch
\* does not raise, and it returns N-1 results: unit k is absent and every other
\* unit's entry is the response given for that unit, in submission order.
C2_PartialFailureIsolation ==
    \A k \in Units : C2_Premise(k) =>
        /\ ~aborted
        /\ dstate # "raised"
        /\ \A i \in Units : collected[i] => results[i] = (IF i = k THEN None ELSE Expected(i))
        /\ dstate = "returned" =>
              /\ Len(returned) = NumRequests - 1
              /\ \A j \in Units \ {k} :
                    returned[(IF j < k THEN j ELSE j - 1) + 1] = Expected(j)

C2_Witness ==
    /\ dstate = "returned"
    /\ callLog[0] = <<"error">>
    /\ callLog[1] = <<"ok">>
    /\ returned = <<given[1]>>

\* C3 as stated: a unit whose client raises the transient error on every call
\* ends absent after max_retries retries (client calls after the first).
C3_RetriesEqualMaxRetries ==
    \A i \in Units : (Terminal(i) /\ AllTransient(i)) =>
        /\ Len(callLog[i]) - 1 = max_retries
        /\ ret[i].kind = "none"

\* C3 amended: max_retries bounds the client calls, not the retries.  No unit
\* makes more than max_retries client calls, and a unit whose client raises
\* the transient error on every call makes exactly max_retries calls
\* (max_retries - 1 retries) and is then returned as absent (index, None).
C3_AttemptCeiling ==
    \A i \in Units :
        /\ Len(callLog[i]) <= max_retries
        /\ AllTransient(i) =>
              IF Len(callLog[i]) = max_retries
              THEN pc[i] = "failed" /\ ret[i].kind = "none" /\ ret[i].index = i
              ELSE pc[i] = "calling" /\ attempt[i] = Len(callLog[i])

C3_Witness ==
    /\ pc[0] = "failed"
    /\ callLog[0] = <<"503", "503", "503">>
    /\ ret[0].kind = "none"

\* C4: backoff schedule.  The k-th delay a unit sleeps is k * BackoffBase;
\* every delay follows a transient failure and precedes the next client call
\* of the unit (none after the last call); a unit whose client fails
\* transiently twice and then succeeds ends done after the delays
\* BackoffBase*1 and BackoffBase*2.
C4_BackoffSchedule ==
    \A i \in Units :
        /\ \A k \in DOMAIN sleeps[i] :
              sleeps[i][k] = k * BackoffBase /\ callLog[i][k] = "503"
        /\ Len(sleeps[i]) =
              IF pc[i] = "calling" \/ Len(callLog[i]) = 0
              THEN Len(callLog[i]) ELSE Len(callLog[i]) - 1
        /\ (Terminal(i) /\ callLog[i] = <<"503", "503", "ok">>) =>
              /\ pc[i] = "done"
              /\ sleeps[i] = <<BackoffBase * 1, BackoffBase * 2>>

C4_Witness ==
    /\ pc[1] = "done"
    /\ callLog[1] = <<"503", "503", "ok">>
    /\ sleeps[1] = <<2, 4>>
    /\ collected[1]
    /\ results[1] = given[1]

\* C5: a permanent client failure is never retried.  A client call that fails
\* with an error other than service-unavailable is the last call of its unit,
\* no delay follows it, and the unit is failed (absent).
C5_PermanentNotRetried ==
    \A i \in Units : \A n \in DOMAIN callLog[i] :
        callLog[i][n] = "error" =>
            /\ n = Len(callLog[i])
            /\ Len(sleeps[i]) = n - 1
            /\ pc[i] = "failed"
            /\ ret[i].kind = "none"

C5_Witness ==
    /\ callLog[0] = <<"503", "error">>
    /\ pc[0] = "failed"
    /\ callLog[1] = <<"error">>
    /\ pc[1] = "failed"

\* C6: cache-first short circuit.  A unit that finds a cache entry for its
\* digest when it starts is done with the cached response and makes no client
\* call; a dispatch of the batch that follows a dispatch in which every unit
\* succeeded makes no client call at all.
C6_CacheFirst ==
    \A i \in Units :
        /\ found[i] = "entry" =>
              /\ pc[i] = "done"
              /\ callLog[i] = <<>>
              /\ ret[i].kind = "str"
              /\ ret[i].text = cache[UnitKey(i)].doc.response
        /\ warm =>
              /\ callLog[i] = <<>>
              /\ found[i] \in {"unset", "entry"}

C6_Witness ==
    /\ warm
    /\ dstate = "returned"
    /\ Len(returned) = NumRequests
    /\ \A i \in Units : found[i] = "entry" /\ results[i] = cache[UnitKey(i)].doc.response

C10_CorruptIsMiss ==
    \A i \in Units : found[i] = "corrupt" =>
        /\ pc[i] \in {"calling", "saving", "done", "failed"}
        /\ ~aborted
        /\ dstate # "raised"

SavesBefore(n, k) ==
    {m \in 1 .. n - 1 : op[m].name = "save" /\ op[m].key = k}

Latest(S) == CHOOSE m \in S : \A x \in S : x <= m

\* C8: cache key sensitivity.  Two descriptors that differ in exactly one
\* field (prompt, payload, model, provider, run or index), or that are two
\* units (run, index) of the same test, give different strings to the hash and
\* so different digests (cache files).
C8_KeySensitivity ==
    (h1 # None /\ FieldsApart(d1, d2) # {}
       /\ (Cardinality(FieldsApart(d1, d2)) = 1 \/ FieldsApart(d1, d2) = {"run", "index"})) =>
        /\ h1[2] # h2[2]
        /\ h1 # h2

C8_Witness ==
    /\ h1 # None
    /\ FieldsApart(d1, d2) = {"run", "index"}
    /\ d1.run = 1 /\ d1.index = 0
    /\ d2.run = 0 /\ d2.index = 10
    /\ d1.text = <<"|">>
    /\ h1 # h2

\* C9: cache round trip and idempotent writes.  A read of a digest returns
\* the content of the latest save of that digest (absent when there was none)
\* and never raises, whatever was saved under other digests and however often
\* the same content was saved; the directory holds one file per saved digest.
C9_SaveThenGet ==
    /\ \A n \in DOMAIN op : op[n].name = "get" =>
          /\ ~op[n].raised
          /\ op[n].some = (SavesBefore(n, op[n].key) # {})
          /\ op[n].some => op[n].value = op[Latest(SavesBefore(n, op[n].key))].value
    /\ DOMAIN cache = {op[n].key : n \in {m \in DOMAIN op : op[m].name = "save"}}

C9_Witness ==
    /\ Len(op) = 3
    /\ op[1].name = "save"
    /\ op[2] = op[1]
    /\ op[3].name = "get"
    /\ op[3].key = op[1].key
    /\ op[3].value = op[1].value
    /\ Cardinality(DOMAIN cache) = 1

----------------------------------------------------------------------------
(* Properties of the dispatch loops of test_distraction_hypotheses *)

\* C11: exception isolation.  An exception raised while one unit is processed
\* does not end the collection loop: the loop goes on to collect the other
\* units and the program that runs it is not terminated by it.
C11_ExceptionIsolation ==
    (\E i \in Units : pc[i] = "raised") => (~aborted /\ phase # "raised")

C13_SelectiveClear ==
    (op # <<>> /\ op[Len(op)].name = "clear") =>
        IF op[Len(op)].key = None THEN cache = <<>>
        ELSE op[Len(op)].key = StrInt(TEST_SETUP_INDEX) =>
                \A k \in CacheKeys : k \notin DOMAIN cache

\* C14: write-once cache entries.  Once the entry of a digest has been
\* written, no step of a dispatch changes its content or removes it, also
\* when two units work on the same digest.
C14_WriteOnce ==
    [][\A k \in DOMAIN cache :
          cache[k].complete => (k \in DOMAIN cache' /\ cache'[k] = cache[k])]_vars

----------------------------------------------------------------------------
(* Properties of the dispatcher, continued *)

\* C15: termination.  Under fair scheduling of the workers and a client whose
\* every call returns or raises, every unit of a running dispatch reaches a
\* terminal state, the dispatch returns, and it has returned only when all N
\* units are terminal and collected.
C15_Termination ==
    /\ \A i \in 0 .. NumRequests - 1 : (dstate = "running") ~> Terminal(i)
    /\ (dstate = "running") ~> (dstate = "returned")
    /\ [](dstate = "returned" => \A i \in Units : Terminal(i) /\ collected[i])

C15_Witness ==
    /\ dstate = "returned"
    /\ callLog[0] = <<"503", "503", "503">>
    /\ callLog[1] = <<"503", "ok">>
    /\ \A i \in Units : Terminal(i) /\ collected[i]

----------------------------------------------------------------------------
(* Properties of the dispatch loops of test_distraction_hypotheses, continued *)

\* C16: callers tolerate a shorter result list.  Whatever units of the batch
\* failed, the code that consumes the batch (analyze_results) completes
\* without raising.
C16_CallersTolerate ==
    (phase \in {"finished", "raised"} /\ ~aborted) =>
        (phase = "finished" /\ ~analysis.raised)

\* C17: incremental re-execution.  A unit that ends failed leaves no cache
\* entry for its digest and a unit that ends done after a client call leaves
\* the entry of its response; so a dispatch of the batch that follows a
\* dispatch with failures makes client calls for the units that failed in it
\* and for no unit that succeeded in it.
C17_IncrementalRerun ==
    \A i \in Units :
        /\ pc[i] = "failed" => UnitKey(i) \notin DOMAIN cache
        /\ (pc[i] = "done" /\ callLog[i] # <<>>) =>
              /\ UnitKey(i) \in DOMAIN cache
              /\ cache[UnitKey(i)].complete
              /\ cache[UnitKey(i)].doc.response = given[i]
        /\ prev[i] = "done" => (callLog[i] = <<>> /\ pc[i] \in {"pending", "done"})
        /\ (prev[i] = "failed" /\ Terminal(i)) =>
              (found[i] = "absent" /\ Len(callLog[i]) >= 1)

C17_Witness ==
    /\ prev[0] = "failed"
    /\ prev[1] = "done"
    /\ dstate = "returned"
    /\ callLog[0] = <<"ok">>
    /\ callLog[1] = <<>>
    /\ Len(returned) = NumRequests

RECURSIVE DoneTexts(_)
\* the response texts of the units from index i on that ended done, in
\* increasing order of index
DoneTexts(i) ==
    IF i >= NumRequests THEN <<>>
    ELSE (IF pc[i] = "done" THEN <<ret[i].text>> ELSE <<>>) \o DoneTexts(i + 1)

\* C18: the returned sequence is the pre-allocated N-slot sequence without
\* its absent slots.  It holds the response text of each unit that ended
\* done, in increasing order of index, and its length is N minus the number
\* of units that ended failed.
C18_ReturnedIsFiltered ==
    dstate = "returned" =>
        /\ \A i \in Units : results[i] = (IF pc[i] = "done" THEN ret[i].text ELSE None)
        /\ returned = DoneTexts(0)
        /\ Len(returned) = NumRequests - Cardinality({i \in Units : pc[i] = "failed"})
        /\ \A n \in DOMAIN returned : returned[n] # None

C18_Witness ==
    /\ dstate = "returned"
    /\ pc[0] = "done"
    /\ pc[1] = "failed"
    /\ found[0] = "entry"
    /\ returned = <<cache[UnitKey(0)].doc.response>>

\* the state of unit i in the terms of the per-unit state machine; a unit is
\* Calling from its first client call until the response has been cached
UnitState(i) ==
    CASE pc[i] = "pending" -> "Pending"
      [] pc[i] \in {"calling", "saving"} -> "Calling"
      [] pc[i] = "done" -> "Done"
      [] pc[i] = "failed" -> "Failed"
      [] pc[i] = "raised" -> "Raised"

\* a step of unit i along an edge of the state machine
UnitStep(i) ==
    LET a == UnitState(i)
        b == UnitState(i)'
        last == callLog'[i][Len(callLog'[i])]
    IN  \/ a = "Pending" /\ b = "Done" /\ found'[i] = "entry" /\ callLog'[i] = <<>>
        \/ a = "Pending" /\ b = "Calling" /\ found'[i] = "absent"
        \/ a = "Calling" /\ b = "Done" /\ last = "ok"
        \/ a = "Calling" /\ b = "Calling" /\ pc[i] = "calling" /\ pc'[i] = "saving"
        \/ /\ a = "Calling" /\ b = "Calling"
           /\ Len(callLog'[i]) = Len(callLog[i]) + 1
           /\ last = "503"
           /\ Len(callLog'[i]) < max_retries
        \/ /\ a = "Calling" /\ b = "Failed"
           /\ last = "error" \/ (last = "503" /\ Len(callLog'[i]) = max_retries)

\* C19: per-unit state machine.  A unit moves only along Pending -> Done
\* (cache hit), Pending -> Calling, Calling -> Done (success), Calling ->
\* Calling (transient failure, bounded retry) and Calling -> Failed (permanent
\* failure or retries exhausted); Done and Failed are left only when a new
\* dispatch submits the unit again; a unit is Done exactly when it has a
\* result and Failed exactly when its slot is absent in the output.
C19_UnitStateMachine ==
    /\ [][\A i \in Units :
            \/ pc'[i] = pc[i] /\ callLog'[i] = callLog[i]
            \/ dstate # "running" /\ dstate' = "running" /\ UnitState(i)' = "Pending"
            \/ UnitStep(i)]_vars
    /\ [](\A i \in Units :
            /\ UnitState(i) \in {"Pending", "Calling", "Done", "Failed"}
            /\ UnitState(i) = "Done" <=> (Terminal(i) /\ Delivered(i))
            /\ UnitState(i) = "Failed" <=> ret[i].kind = "none"
            /\ collected[i] => (UnitState(i) = "Done" <=> results[i] # None)
            /\ dstate = "returned" =>
                  /\ UnitState(i) \in {"Done", "Failed"}
                  /\ UnitState(i) = "Failed" <=> results[i] = None
                  /\ UnitState(i) = "Done" =>
                        returned[i - AbsentBelow(i) + 1] = ret[i].text
                  /\ Len(returned) = Cardinality({j \in Units : UnitState(j) = "Done"}))

C19_Witness ==
    /\ dstate = "returned"
    /\ callLog[0] = <<"503", "ok">>
    /\ pc[0] = "done"
    /\ callLog[1] = <<"503", "error">>
    /\ pc[1] = "failed"
    /\ returned = <<given[0]>>

----------------------------------------------------------------------------
(* Properties of make_single_request *)

\* C20: retry with backoff in every dispatcher.  A unit whose client call
\* fails with the transient service-unavailable error is called again, after
\* a delay, before it is marked failed: a unit that has ended without a result
\* and saw only transient errors has made more than one client call and has
\* slept between them.
C20_RetryEverywhere ==
    \A i \in Units :
        (Terminal(i) /\ pc[i] # "done" /\ AllTransient(i)) =>
            /\ Len(callLog[i]) > 1
            /\ Len(sleeps[i]) = Len(callLog[i]) - 1

\* C21: results land by original index in every dispatcher.  The result list
\* run_hypothesis_test (run_parallel_test) has collected when its loop is over
\* is ordered by request_idx, whatever the completion order: position j holds
\* the unit with the j-th smallest request index.
C21_OrderedByIndex ==
    (phase = "hypothesis" /\ \A i \in Units : collected[i]) =>
        \A n \in 1 .. Len(hyp_results) - 1 :
            hyp_results[n].request_idx < hyp_results[n + 1].request_idx

----------------------------------------------------------------------------
(* Properties of the dispatcher, continued *)

\* C22: write-through ordering.  For a unit served by a client call the cache
\* entry is written before the result is recorded: a unit that has returned
\* the response of a client call, and a slot filled with it, imply that the
\* cache holds the complete entry of the unit's digest with that response.
C22_WriteThrough ==
    \A i \in Units :
        (callLog[i] # <<>> /\ (pc[i] = "done" \/ (collected[i] /\ results[i] # None))) =>
            /\ UnitKey(i) \in DOMAIN cache
            /\ cache[UnitKey(i)].complete
            /\ cache[UnitKey(i)].doc.response = given[i]
            /\ collected[i] => results[i] = cache[UnitKey(i)].doc.response

C22_Witness ==
    /\ dstate = "running"
    /\ callLog[1] = <<"ok">>
    /\ collected[1]
    /\ results[1] = given[1]
    /\ cache[UnitKey(1)].doc.response = given[1]
    /\ pc[0] = "saving"
    /\ ~cache[UnitKey(0)].complete
    /\ results[0] = None

\* C23: bounded parallelism.  At most max_workers units are executing at
\* once (in a client call or in a backoff sleep, up to the cache write); the
\* units that are neither executing nor terminal are pending in the queue,
\* and they are the units submitted last.
C23_BoundedParallelism ==
    /\ Cardinality({i \in Units : Executing(i)}) <= max_workers
    /\ \A i \in Units : (~Executing(i) /\ ~Terminal(i)) => pc[i] = "pending"

C23_Witness ==
    /\ Cardinality(Units) > max_workers
    /\ Cardinality({i \in Units : Executing(i)}) = max_workers
    /\ pc[0] = "failed"
    /\ sleeps[1] # <<>>
    /\ pc[1] = "calling"
    /\ pc[max_workers] = "calling"
    /\ \A i \in Units : i > max_workers => pc[i] = "pending"

\* the iterations of the as_completed loop that assigned an output slot
SlotWrites ==
    {k \in DOMAIN completion :
        pc[completion[k]] # "raised" /\ ret[completion[k]].kind # "bare"}

\* the slot assigned by iteration k of the as_completed loop
WrittenSlot(k) == result_slot(ret[completion[k]].index, k - 1)

\* C24: slot ownership.  During a dispatch each output slot is assigned at
\* most once, the assignment to slot i stores the result of the unit
\* submitted with index i, no two units assign the same slot, and a slot
\* nobody assigned is still None, under every interleaving of the workers.
C24_SlotOwnership ==
    /\ \A k \in SlotWrites : WrittenSlot(k) = completion[k]
    /\ \A k \in SlotWrites : \A l \in SlotWrites :
           WrittenSlot(k) = WrittenSlot(l) => k = l
    /\ \A s \in Units :
           IF \E k \in SlotWrites : WrittenSlot(k) = s
           THEN results[s] = ret[s].text
           ELSE results[s] = None

C24_Witness ==
    /\ dstate = "returned"
    /\ completion = <<1, 0>>
    /\ SlotWrites = {1, 2}
    /\ callLog[0] = <<"503", "ok">>
    /\ callLog[1] = <<"ok">>
    /\ results[0] = given[0]
    /\ results[1] = given[1]
    /\ given[0] # given[1]

\* C25: progress reporting.  The progress counter starts at 0 with the
\* dispatch, counts the units whose future the dispatcher has taken (Done
\* and Failed alike), never exceeds the number of requests, equals it when
\* the dispatch returns, and every step that changes it either takes one
\* terminal unit and adds exactly one or starts a dispatch and resets it.
C25_Progress ==
    /\ [](/\ pbar = Cardinality({i \in Units : collected[i]})
          /\ pbar <= Cardinality(Units)
          /\ dstate = "returned" => pbar = Cardinality(Units))
    /\ [][/\ (dstate # "running" /\ dstate' = "running") => pbar' = 0
          /\ \A i \in Units :
                (~collected[i] /\ collected'[i]) => (Terminal(i) /\ pbar' = pbar + 1)
          /\ pbar' # pbar =>
                \/ dstate # "running" /\ dstate' = "running"
                \/ \E i \in Units : ~collected[i] /\ collected'[i]]_vars

C25_Witness ==
    /\ dstate = "returned"
    /\ pbar = Cardinality(Units)
    /\ completion = <<1, 0>>
    /\ pc[0] = "failed"
    /\ pc[1] = "done"
    /\ returned = <<given[1]>>

----------------------------------------------------------------------------
(* Properties of the cache, continued *)

\* C26: cache lookup on a miss.  get_cached_response on a digest that has no
\* file returns None without raising, and the call leaves the cache
\* directory as it was: no entry is created, deleted or changed.
C26_MissIsSilent ==
    [][(/\ Len(op') = Len(op) + 1
        /\ op'[Len(op')].name = "get"
        /\ op'[Len(op')].key \notin DOMAIN cache) =>
           /\ ~op'[Len(op')].raised
           /\ ~op'[Len(op')].some
           /\ op'[Len(op')].value = NoDoc
           /\ cache' = cache]_vars

C26_Witness ==
    /\ Len(op) = 3
    /\ op[1].name = "get" /\ ~op[1].some /\ ~op[1].raised
    /\ op[2].name = "save" /\ op[2].key = op[1].key
    /\ op[3].name = "get" /\ op[3].key # op[1].key
    /\ ~op[3].some /\ ~op[3].raised /\ op[3].value = NoDoc
    /\ DOMAIN cache = {op[2].key}

\* C27: cache key injectivity over whole descriptors.  Two descriptors that
\* differ in one or more fields give different strings to the hash, also when
\* a field contains the delimiter and when one descriptor has request_idx None
\* and the other a given request_idx.
C27_KeyInjective ==
    (h1 # None /\ d1 # d2) => (h1[2] # h2[2] /\ h1 # h2)

----------------------------------------------------------------------------
(* Properties of the dispatcher on a disk that can fill up *)

\* C28: a successful client call is never lost.  Once a client call of a unit
\* has returned a response, the unit ends Done with that response and that
\* call is the last client call made for it, also when the cache write that
\* follows raises.
C28_ResponseKept ==
    \A i \in Units :
        (Terminal(i) /\ \E n \in DOMAIN callLog[i] : callLog[i][n] = "ok") =>
            /\ pc[i] = "done"
            /\ ret[i].text = given[i]
            /\ callLog[i][Len(callLog[i])] = "ok"
            /\ Cardinality({n \in DOMAIN callLog[i] : callLog[i][n] = "ok"}) = 1

----------------------------------------------------------------------------
(* Properties of repeated dispatches *)

\* C29: cold/warm equivalence.  When every unit of a dispatch is served from
\* the cache, the dispatch makes no client call and returns, element by
\* element, the list returned by the dispatch that filled the cache with
\* client calls, although a hit returns the stored text and a client call
\* returns a (text, actual_model) pair.
C29_ColdWarm ==
    (dstate = "returned" /\ cold # <<>> /\ \A i \in Units : found[i] = "entry") =>
        /\ returned = cold
        /\ Len(returned) = Cardinality(Units)
        /\ \A i \in Units :
              /\ callLog[i] = <<>>
              /\ ret[i].kind = "str"
              /\ returned[i + 1] = cold[i + 1]

C29_Witness ==
    /\ dstate = "returned"
    /\ \A i \in Units : found[i] = "entry" /\ ret[i].kind = "str"
    /\ Len(cold) = Cardinality(Units)
    /\ cold[1] # cold[2]
    /\ returned = cold
    /\ completion = <<1, 0>>

----------------------------------------------------------------------------
(* Properties of the rows run_model_test writes *)

\* C30: index carried to downstream records.  The request_index written to
\* the CSV with the response of a unit is the index under which the unit was
\* dispatched and cached, for every combination of failed and successful
\* units of the batch.
C30_IndexCarried ==
    csv # <<>> =>
        \A i \in Units : Delivered(i) =>
            /\ csv[i - AbsentBelow(i) + 1].response = ret[i].text
            /\ csv[i - AbsentBelow(i) + 1].request_index = i

====
